---- MODULE Spec2Model ----
(***************************************************************************)
(* State-machine model of slowpoke's event loop (src/src/loop.cc): the     *)
(* GlobalState, the Socket objects and the libevent callbacks OnAccept,    *)
(* OnRead, OnEvent and Reset.  Every callback runs to completion on the    *)
(* single loop thread, so every callback is one action.                    *)
(***************************************************************************)
EXTENDS Integers, Sequences, FiniteSets, TLC

(* ---------------- bounds of the model ---------------- *)
MaxAccepts == 2        \* connections accepted in one run
MaxScore == 2          \* cap on score (the code's int is not capped)
MaxClockSec == 2       \* last second of the modelled clock

(* ---------------- program constants ---------------- *)
USEC_PER_SEC == 1000000
MAX_USEC == 999999
BUF_SIZE == 8192

\* the null handle, a record so that it compares with timers and timevals
NULL == [nullptr |-> TRUE]

\* a Socket is named by its descriptor; at most MaxAccepts are ever open
SocketIds == 1..MaxAccepts

\* the arguments of RunLoop that are tried: timeout and max_timeout
TimeoutArgs == {1, 2}
MaxTimeoutArgs == {1}

\* microsecond values the clock is sampled at, and the microsecond draws tried
ClockUsecs == {0, 999999}
UsecDraws == {0, 999999}

VARIABLES
  max_seconds,       \* GlobalState::max_seconds
  max_before_reset,  \* GlobalState::max_before_reset
  score,             \* GlobalState::score
  max_score,         \* GlobalState::max_score
  reset_timer,       \* GlobalState::reset_timer: NULL or a timer event
  timers,            \* the timer events allocated and pending in the event_base
  sockets,           \* GlobalState::sockets
  next_,             \* Socket::next_, one entry per allocated Socket
  output,            \* lines added to the output of each live bufferevent
  stdout,            \* lines written to std::cout
  ub,                \* event_free was handed a null or an already freed handle
  aborted,           \* the process was ended by a failed assert
  NDEBUG,            \* the build compiles assert() away
  now,               \* the clock (gettimeofday / the loop's timer clock)
  last,              \* history: the callback that ran last and its input
  resets,            \* instrumentation: number of calls of CloseAllSockets
  naccepts,          \* history: number of calls of OnAccept
  epoch_accepts,     \* history: calls of OnAccept since the last reset
  first_accept,      \* history: clock at the first OnAccept since the last reset
  epoch_ticks,       \* history: reads at or after the reader's deadline since the last reset
  born,              \* history: of each live Socket, the value of resets when it was accepted
  frame,             \* the call in progress and its position, NULL between callbacks
  nul_index,         \* DEBUG build: the index OnRead last wrote '\0' to, -1 before
  stopped            \* event_base_loopbreak was called

vars == <<max_seconds, max_before_reset, score, max_score, reset_timer, timers,
          sockets, next_, output, stdout, ub, aborted, NDEBUG, now, last, resets,
          naccepts, epoch_accepts, first_accept, epoch_ticks, born, frame,
          nul_index, stopped>>

(* ---------------- timeval ---------------- *)
TV(s, u) == [tv_sec |-> s, tv_usec |-> u]

\* total microseconds of a timeval
Micros(tv) == tv.tv_sec * USEC_PER_SEC + tv.tv_usec

Max(a, b) == IF a >= b THEN a ELSE b

(* ---------------- GlobalState ---------------- *)
\* The part of the program state the callbacks work on, as one record.
World == [score |-> score, max_score |-> max_score, reset_timer |-> reset_timer,
          timers |-> timers, sockets |-> sockets, next_ |-> next_, output |-> output,
          stdout |-> stdout, ub |-> ub, resets |-> resets]

\* the callback's result becomes the next state
Commit(r) ==
  \E w \in {r} :
     /\ score' = w.score
     /\ max_score' = w.max_score
     /\ reset_timer' = w.reset_timer
     /\ timers' = w.timers
     /\ sockets' = w.sockets
     /\ next_' = w.next_
     /\ output' = w.output
     /\ stdout' = w.stdout
     /\ ub' = w.ub
     /\ resets' = w.resets

\* variant: the high-water mark is not updated
IncreaseScore_nomax(w) == [w EXCEPT !.score = @ + 1]

IncreaseScore(w) ==
  [w EXCEPT !.score = @ + 1, !.max_score = Max(w.score + 1, @)]

\* variant: the score is zeroed before it is printed
ResetAndPrintScore_late(w) ==
  [w EXCEPT !.stdout = Append(@, [score |-> 0, max_score |-> w.max_score]),
            !.score = 0]

\* variant: the score is printed but not zeroed
ResetAndPrintScore_keep(w) ==
  [w EXCEPT !.stdout = Append(@, [score |-> w.score, max_score |-> w.max_score])]

ResetAndPrintScore(w) ==
  [w EXCEPT !.stdout = Append(@, [score |-> w.score, max_score |-> w.max_score]),
            !.score = 0]

(* ---------------- Socket ---------------- *)
\* removes key k from function f
Drop(f, k) == [x \in (DOMAIN f) \ {k} |-> f[x]]

\* adds or replaces key k of function f
Put(f, k, v) == [x \in (DOMAIN f) \cup {k} |-> IF x = k THEN v ELSE f[x]]

\* variant: the bufferevent is not freed
DeleteSocket_leak(w, s) ==
  [w EXCEPT !.sockets = @ \ {s},
            !.next_ = Drop(@, s)]

\* variant: closing the last connection cancels the reset timer
DeleteSocket_disarm(w, s) ==
  [w EXCEPT !.sockets = @ \ {s},
            !.output = Drop(@, s),
            !.next_ = Drop(@, s),
            !.timers = IF w.sockets \ {s} = {} THEN @ \ {w.reset_timer} ELSE @,
            !.reset_timer = IF w.sockets \ {s} = {} THEN NULL ELSE @]

\* variant: the score goes with the connection that is closed
DeleteSocket_forget(w, s) ==
  [w EXCEPT !.sockets = @ \ {s},
            !.output = Drop(@, s),
            !.next_ = Drop(@, s),
            !.score = 0]

\* ~Socket(): erase this from the set, free the bufferevent, release the object
DeleteSocket(w, s) ==
  [w EXCEPT !.sockets = @ \ {s},
            !.output = Drop(@, s),
            !.next_ = Drop(@, s)]

\* variant: only the microsecond fields are compared
IsReady_usec(next, tv) == tv.tv_usec >= next.tv_usec

\* variant: a read exactly at the deadline is not ready
IsReady_strict(next, tv) ==
  IF tv.tv_sec = next.tv_sec
    THEN tv.tv_usec > next.tv_usec
    ELSE tv.tv_sec > next.tv_sec

IsReady(next, tv) ==
  IF tv.tv_sec = next.tv_sec
    THEN tv.tv_usec >= next.tv_usec
    ELSE tv.tv_sec > next.tv_sec

\* variant: the carry is taken only above 1000000
Carry_gt(tv) ==
  IF tv.tv_usec > USEC_PER_SEC
    THEN TV(tv.tv_sec + 1, tv.tv_usec - USEC_PER_SEC)
    ELSE tv

\* the while loop that carries microseconds into seconds
RECURSIVE Carry(_)
Carry(tv) ==
  IF tv.tv_usec >= USEC_PER_SEC
    THEN Carry(TV(tv.tv_sec + 1, tv.tv_usec - USEC_PER_SEC))
    ELSE tv

\* "%06d": the six decimal digits of a value below 10^6, most significant first
Digits6(n) == [i \in 1..6 |-> (n \div (10 ^ (6 - i))) % 10]

\* "%d.%06d %d %d\n"
StatusLine(sec, usec, sc, mx) ==
  [sec |-> sec, usec6 |-> Digits6(usec), score |-> sc, max_score |-> mx]

\* UpdateTimeout() of Socket s at clock tv with the drawn sec and usec
UpdateTimeout(w, s, tv, sec, usec) ==
  LET n1 == Carry(TV(tv.tv_sec, tv.tv_usec + usec))
      n2 == TV(n1.tv_sec + sec, n1.tv_usec)
  IN [w EXCEPT !.next_ = Put(w.next_, s, n2),
               !.output = Put(w.output, s,
                   Append(IF s \in DOMAIN w.output THEN w.output[s] ELSE <<>>,
                          StatusLine(sec, usec, w.score, w.max_score)))]

\* Socket(state, fd) followed by Start()
Start(w, s, tv, sec, usec) ==
  LET w1 == UpdateTimeout(w, s, tv, sec, usec)
  IN [w1 EXCEPT !.sockets = w1.sockets \cup {s}]

(* ---------------- reset ---------------- *)
\* Intermediate states are bound as w1, w2 (x \in {e} evaluates e once).
\* variant: a single delete instead of the loop
DeleteAll_one(w) ==
  IF w.sockets = {} THEN w
  ELSE DeleteSocket(w, CHOOSE s \in w.sockets : TRUE)

\* while (!sockets.empty()) delete *sockets.begin();
RECURSIVE DeleteAll(_)
DeleteAll(w) ==
  IF w.sockets = {} THEN w
  ELSE CHOOSE r \in {DeleteAll(w1) :
                       w1 \in {DeleteSocket(w, CHOOSE s \in w.sockets : TRUE)}} : TRUE

\* variant: the timer handle is freed but not cleared
CloseAllSockets_keep(w) ==
  CHOOSE r \in {[w2 EXCEPT !.ub = @ \/ (w2.reset_timer \notin w2.timers),
                           !.timers = @ \ {w2.reset_timer},
                           !.resets = @ + 1] :
                  w2 \in {ResetAndPrintScore(w1) : w1 \in {DeleteAll(w)}}} : TRUE

\* variant: the handle is cleared but the timer event is not freed
CloseAllSockets_leak(w) ==
  CHOOSE r \in {[w2 EXCEPT !.reset_timer = NULL,
                           !.resets = @ + 1] :
                  w2 \in {ResetAndPrintScore(w1) : w1 \in {DeleteAll(w)}}} : TRUE

\* event_free of a handle that is null or already freed is undefined: ub
CloseAllSockets(w) ==
  CHOOSE r \in {[w2 EXCEPT !.ub = @ \/ (w2.reset_timer \notin w2.timers),
                           !.timers = @ \ {w2.reset_timer},
                           !.reset_timer = NULL,
                           !.resets = @ + 1] :
                  w2 \in {ResetAndPrintScore(w1) : w1 \in {DeleteAll(w)}}} : TRUE

(* ---------------- the loop's clock and timer ---------------- *)
ClockValues == {TV(s, u) : s \in 0..MaxClockSec, u \in ClockUsecs}

\* evtimer_new: a timer event due interval seconds after tv; armed_in is
\* history, the number of resets before it was armed
NewTimer(w, tv, interval) ==
  [due |-> TV(tv.tv_sec + interval, tv.tv_usec), armed_in |-> w.resets]

\* variant: every accept arms a new timer
ArmResetTimer_always(w, tv, interval) ==
  [w EXCEPT !.reset_timer = NewTimer(w, tv, interval),
            !.timers = @ \cup {NewTimer(w, tv, interval)}]

\* evtimer_new + evtimer_add: a one-shot timer due interval seconds after tv
ArmResetTimer(w, tv, interval) ==
  IF w.reset_timer = NULL
    THEN [w EXCEPT !.reset_timer = NewTimer(w, tv, interval),
                   !.timers = @ \cup {NewTimer(w, tv, interval)}]
    ELSE w

\* the loop runs a timer's callback once the clock has reached its due time
TimerDue(timer, tv) == timer # NULL /\ Micros(tv) >= Micros(timer.due)

(* ---------------- callbacks ---------------- *)
\* history: the callback, its socket and input, and the sockets live before it
History(op, s, arg) ==
  last' = [op |-> op, sock |-> s, arg |-> arg, live |-> Cardinality(sockets)]

\* history: the Sockets live after the callback keep their entry of born, and
\* the accepted Sockets get the current value of resets
Births(accepted) ==
  born' = [t \in sockets' |->
             IF t \in DOMAIN born /\ t \notin accepted THEN born[t] ELSE resets]

\* accept() hands out the lowest descriptor that is free.  The first and third
\* conjuncts bound the run: MaxAccepts connections, and a timer that is due
\* within the modelled clock.
OnAccept(s, sec, usec) ==
  /\ naccepts < MaxAccepts
  /\ ~aborted
  /\ ~stopped
  /\ frame = NULL
  /\ now.tv_sec + max_before_reset <= MaxClockSec
  /\ s \notin DOMAIN next_
  /\ \A t \in SocketIds : t < s => t \in DOMAIN next_
  /\ Commit(Start(ArmResetTimer(World, now, max_before_reset), s, now, sec, usec))
  /\ History("OnAccept", s, 0)
  /\ naccepts' = naccepts + 1
  /\ epoch_accepts' = epoch_accepts + 1
  /\ first_accept' = IF epoch_accepts = 0 THEN now ELSE first_accept
  /\ Births({s})
  /\ UNCHANGED <<max_seconds, max_before_reset, aborted, NDEBUG, now, epoch_ticks,
                 frame, nul_index, stopped>>

\* variant: a violation closes the violator only
ReadViolation_self(s, bytes_read) ==
  /\ ~IsReady(next_[s], now)
  /\ Commit(DeleteSocket(World, s))
  /\ UNCHANGED <<epoch_accepts, first_accept, aborted>>

\* OnRead takes the branch that ends in CloseAllSockets
ReadViolation(s, bytes_read) ==
  /\ ~IsReady(next_[s], now)
  /\ Commit(CloseAllSockets(World))
  /\ epoch_accepts' = 0
  /\ first_accept' = NULL
  /\ UNCHANGED aborted

\* variant: the status line is written before the tick is counted
ReadTick_stale(s, bytes_read) ==
  /\ IsReady(next_[s], now)
  /\ score < MaxScore
  /\ \E sec \in 0..(max_seconds - 1), usec \in UsecDraws :
        Commit(IncreaseScore(UpdateTimeout(World, s, now, sec, usec)))
  /\ UNCHANGED <<epoch_accepts, first_accept, aborted>>

\* OnRead takes the branch that scores (score is capped at MaxScore)
ReadTick(s, bytes_read) ==
  /\ IsReady(next_[s], now)
  /\ score < MaxScore
  /\ \E sec \in 0..(max_seconds - 1), usec \in UsecDraws :
        Commit(UpdateTimeout(IncreaseScore(World), s, now, sec, usec))
  /\ UNCHANGED <<epoch_accepts, first_accept, aborted>>

\* assert(bytes_read > 0) fails in a build that keeps assert()
ReadAbort(s, bytes_read) ==
  /\ aborted' = TRUE
  /\ Commit(World)
  /\ UNCHANGED <<epoch_accepts, first_accept>>

OnRead(s, bytes_read) ==
  /\ ~aborted
  /\ ~stopped
  /\ frame = NULL
  /\ s \in sockets
  /\ IF bytes_read = 0 /\ ~NDEBUG
       THEN ReadAbort(s, bytes_read)
       ELSE ReadTick(s, bytes_read) \/ ReadViolation(s, bytes_read)
  /\ History("OnRead", s, bytes_read)
  /\ epoch_ticks' = IF resets' # resets THEN 0
                    ELSE IF ~aborted' /\ Micros(now) >= Micros(next_[s])
                           THEN epoch_ticks + 1
                           ELSE epoch_ticks
  /\ Births({})
  /\ UNCHANGED <<max_seconds, max_before_reset, NDEBUG, now, naccepts, frame,
                 nul_index, stopped>>

CloseEvents == {"BEV_EVENT_ERROR", "BEV_EVENT_EOF"}

\* the event sets libevent reports for a socket without timeouts
EventSets == {{"BEV_EVENT_EOF", "BEV_EVENT_READING"},
              {"BEV_EVENT_ERROR", "BEV_EVENT_WRITING"}}

OnEvent(s, events) ==
  /\ ~aborted
  /\ ~stopped
  /\ frame = NULL
  /\ s \in sockets
  /\ IF events \cap CloseEvents # {}
       THEN Commit(DeleteSocket(World, s))
       ELSE Commit(World)
  /\ History("OnEvent", s, events)
  /\ Births({})
  /\ UNCHANGED <<max_seconds, max_before_reset, aborted, NDEBUG, now,
                 naccepts, epoch_accepts, first_accept, epoch_ticks, frame,
                 nul_index, stopped>>

\* the loop runs the callback of a pending timer that is due; last.arg is the
\* timer that fired
Reset ==
  /\ ~aborted
  /\ ~stopped
  /\ frame = NULL
  /\ \E t \in timers :
        /\ TimerDue(t, now)
        /\ History("Reset", 0, t)
  /\ Commit(CloseAllSockets(World))
  /\ epoch_accepts' = 0
  /\ first_accept' = NULL
  /\ epoch_ticks' = 0
  /\ Births({})
  /\ UNCHANGED <<max_seconds, max_before_reset, aborted, NDEBUG, now, naccepts,
                 frame, nul_index, stopped>>

\* time passes between two callbacks
Advance ==
  /\ ~aborted
  /\ ~stopped
  /\ frame = NULL
  /\ \E tv \in ClockValues : Micros(tv) > Micros(now) /\ now' = tv
  /\ History("Advance", 0, 0)
  /\ UNCHANGED <<max_seconds, max_before_reset, score, max_score, reset_timer,
                 timers, sockets, next_, output, stdout, ub, aborted, NDEBUG,
                 resets, naccepts, epoch_accepts, first_accept, epoch_ticks,
                 born, frame, nul_index, stopped>>

(* ---------------- specifications ---------------- *)
\* GlobalState's constructor, before event_base_dispatch
InitState ==
  /\ max_seconds \in TimeoutArgs
  /\ max_before_reset \in MaxTimeoutArgs
  /\ score = 0
  /\ max_score = 0
  /\ reset_timer = NULL
  /\ timers = {}
  /\ sockets = {}
  /\ next_ = << >>
  /\ output = << >>
  /\ stdout = << >>
  /\ ub = FALSE
  /\ aborted = FALSE
  /\ now = TV(0, 0)
  /\ last = [op |-> "Init", sock |-> 0, arg |-> 0, live |-> 0]
  /\ resets = 0
  /\ naccepts = 0
  /\ epoch_accepts = 0
  /\ first_accept = NULL
  /\ epoch_ticks = 0
  /\ born = << >>
  /\ nul_index = -1
  /\ stopped = FALSE

Init == InitState /\ NDEBUG = FALSE /\ frame = NULL

\* bufferevent_read results when the read callback runs with data buffered
BytesRead == {1, BUF_SIZE}

Accepts == \E s \in SocketIds, sec \in 0..(max_seconds - 1), usec \in UsecDraws :
              OnAccept(s, sec, usec)
Reads == \E s \in SocketIds, n \in BytesRead : OnRead(s, n)
Events == \E s \in SocketIds, ev \in EventSets : OnEvent(s, ev)

Next == Accepts \/ Reads \/ Events \/ Reset \/ Advance

Spec == Init /\ [][Next]_vars

\* the timer clock keeps running and the loop delivers a timer that is due
LiveSpec == Spec /\ WF_vars(Advance) /\ WF_vars(Reset)

\* the same program when the read callback may also run with nothing buffered,
\* in a build with and in a build without assert()
InitZero == InitState /\ NDEBUG \in BOOLEAN /\ frame = NULL
ZeroReads == \E s \in SocketIds : OnRead(s, 0)
NextZero == Next \/ ZeroReads
SpecZero == InitZero /\ [][NextZero]_vars

(* ---------------- the build with DEBUG defined ---------------- *)
\* OnRead as it is compiled with DEBUG: buf[bytes_read] = '\0', then a read
\* that holds an 'x' closes every Socket and breaks the loop; there is no
\* assert in this build
OnReadDebug(s, bytes_read, has_x) ==
  /\ ~aborted
  /\ ~stopped
  /\ frame = NULL
  /\ s \in sockets
  /\ nul_index' = bytes_read
  /\ IF has_x
       THEN /\ Commit(CloseAllSockets(World))
            /\ stopped' = TRUE
            /\ epoch_accepts' = 0
            /\ first_accept' = NULL
            /\ UNCHANGED aborted
       ELSE /\ ReadTick(s, bytes_read) \/ ReadViolation(s, bytes_read)
            /\ UNCHANGED stopped
  /\ History("OnRead", s, bytes_read)
  /\ epoch_ticks' = IF resets' # resets THEN 0 ELSE epoch_ticks + 1
  /\ Births({})
  /\ UNCHANGED <<max_seconds, max_before_reset, NDEBUG, now, naccepts, frame>>

DebugReads ==
  \E s \in SocketIds, n \in BytesRead, has_x \in BOOLEAN : OnReadDebug(s, n, has_x)

\* the loop of the DEBUG build; event_base_dispatch returns once stopped
NextDebug == Accepts \/ DebugReads \/ Events \/ Reset \/ Advance

SpecDebug == Init /\ [][NextDebug]_vars

(* ---------------- Socket's functions on their own ---------------- *)
\* every variable but frame
progvars == <<max_seconds, max_before_reset, score, max_score, reset_timer, timers,
              sockets, next_, output, stdout, ub, aborted, NDEBUG, now, last,
              resets, naccepts, epoch_accepts, first_accept, epoch_ticks, born,
              nul_index, stopped>>

\* microsecond fields of a normalised timeval, both ends of the range
UsecSamples == {0, 1, MAX_USEC - 1, MAX_USEC}
TimevalSamples == {TV(s, u) : s \in 0..MaxClockSec, u \in UsecSamples}

\* a call of IsReady() on a Socket whose deadline is next, at clock tv
IsReadyCalls ==
  [fn : {"IsReady"}, next : TimevalSamples, tv : TimevalSamples,
   done : {FALSE}, result : {FALSE}]

InitIsReady == InitState /\ NDEBUG = FALSE /\ frame \in IsReadyCalls

CallIsReady ==
  /\ frame.fn = "IsReady"
  /\ ~frame.done
  /\ frame' = [frame EXCEPT !.done = TRUE,
                            !.result = IsReady(frame.next, frame.tv)]
  /\ UNCHANGED progvars

SpecIsReady == InitIsReady /\ [][CallIsReady]_vars

\* a call of UpdateTimeout() on a new Socket at clock tv, with the values the
\* two distributions return
InitUpdateTimeout ==
  /\ InitState
  /\ NDEBUG = FALSE
  /\ \E tv \in TimevalSamples, sec \in 0..(max_seconds - 1), usec \in UsecSamples :
        frame = [fn |-> "UpdateTimeout", tv |-> tv, sec |-> sec, usec |-> usec,
                 done |-> FALSE, next_ |-> NULL, line |-> NULL]

CallUpdateTimeout ==
  /\ frame.fn = "UpdateTimeout"
  /\ ~frame.done
  /\ \E w \in {UpdateTimeout(World, 1, frame.tv, frame.sec, frame.usec)} :
        frame' = [frame EXCEPT !.done = TRUE,
                                !.next_ = w.next_[1],
                                !.line = w.output[1][Len(w.output[1])]]
  /\ UNCHANGED progvars

SpecUpdateTimeout == InitUpdateTimeout /\ [][CallUpdateTimeout]_vars

(* ---------------- CloseAllSockets, one statement at a time ---------------- *)
\* the frame of a call of CloseAllSockets: its caller with the caller's input
\* (the timer that fired, or the Socket and the bytes read), and the number of
\* live Sockets on entry
CloseAllFrame(caller, timer, s, bytes_read) ==
  [fn |-> "CloseAllSockets", pc |-> "while", caller |-> caller, timer |-> timer,
   sock |-> s, bytes_read |-> bytes_read, live |-> Cardinality(sockets)]

InCloseAll(pc) == frame # NULL /\ frame.pc = pc

\* the loop runs the callback of a pending timer that is due
EnterReset ==
  /\ ~aborted
  /\ ~stopped
  /\ frame = NULL
  /\ \E t \in timers : TimerDue(t, now) /\ frame' = CloseAllFrame("Reset", t, 0, 0)
  /\ UNCHANGED progvars

\* OnRead on a Socket that is not ready
EnterReadViolation ==
  /\ ~aborted
  /\ ~stopped
  /\ frame = NULL
  /\ \E s \in sockets, n \in BytesRead :
        /\ ~IsReady(next_[s], now)
        /\ frame' = CloseAllFrame("OnRead", NULL, s, n)
  /\ UNCHANGED progvars

\* variant: the destructor does not erase the Socket from the set
CloseAllDelete_noerase ==
  /\ InCloseAll("while")
  /\ sockets # {}
  /\ \E s \in sockets : Commit([DeleteSocket(World, s) EXCEPT !.sockets = sockets])
  /\ UNCHANGED <<max_seconds, max_before_reset, aborted, NDEBUG, now, last,
                 naccepts, epoch_accepts, first_accept, epoch_ticks, born,
                 frame, nul_index, stopped>>

\* one iteration of the loop: delete *sockets.begin(); the set is ordered by
\* address, so any live Socket can be the first
CloseAllDelete ==
  /\ InCloseAll("while")
  /\ sockets # {}
  /\ \E s \in sockets : Commit(DeleteSocket(World, s))
  /\ UNCHANGED <<max_seconds, max_before_reset, aborted, NDEBUG, now, last,
                 naccepts, epoch_accepts, first_accept, epoch_ticks, born,
                 frame, nul_index, stopped>>

\* the loop ends on the empty set; state->ResetAndPrintScore()
CloseAllPrint ==
  /\ InCloseAll("while")
  /\ sockets = {}
  /\ Commit(ResetAndPrintScore(World))
  /\ frame' = [frame EXCEPT !.pc = "event_free"]
  /\ UNCHANGED <<max_seconds, max_before_reset, aborted, NDEBUG, now, last,
                 naccepts, epoch_accepts, first_accept, epoch_ticks, born,
                 nul_index, stopped>>

\* event_free(state->reset_timer); state->reset_timer = nullptr; and the
\* callback returns to the loop
CloseAllFree ==
  /\ InCloseAll("event_free")
  /\ Commit([World EXCEPT !.ub = @ \/ (reset_timer \notin timers),
                          !.timers = @ \ {reset_timer},
                          !.reset_timer = NULL,
                          !.resets = @ + 1])
  /\ frame' = NULL
  /\ last' = [op |-> frame.caller, sock |-> frame.sock,
              arg |-> IF frame.caller = "Reset" THEN frame.timer ELSE frame.bytes_read,
              live |-> frame.live]
  /\ epoch_accepts' = 0
  /\ first_accept' = NULL
  /\ epoch_ticks' = 0
  /\ Births({})
  /\ UNCHANGED <<max_seconds, max_before_reset, aborted, NDEBUG, now, naccepts,
                 nul_index, stopped>>

\* OnRead on a Socket that is ready
TickReads ==
  \E s \in sockets, n \in BytesRead : IsReady(next_[s], now) /\ OnRead(s, n)

CloseAllSteps == CloseAllDelete \/ CloseAllPrint \/ CloseAllFree

NextCloseAll ==
  \/ Accepts \/ TickReads \/ Events \/ Advance
  \/ EnterReset \/ EnterReadViolation
  \/ CloseAllSteps

\* a callback that has started runs on to its return
SpecCloseAll == Init /\ [][NextCloseAll]_vars /\ WF_vars(CloseAllSteps)

(* ---------------- properties ---------------- *)
Armed == reset_timer # NULL

\* the line a reset in the current state prints
ResultLine == [score |-> score, max_score |-> max_score]

\* a step in which the reset coordinator ran
ResetStep == resets' # resets

\* a step that ran OnRead on s with data, OnEvent on s with a close event
ReadStep(s) == last'.op = "OnRead" /\ last'.sock = s /\ last'.arg > 0
CloseStep(s) == last'.op = "OnEvent" /\ last'.sock = s
                  /\ last'.arg \cap CloseEvents # {}

\* no Socket object, bufferevent or set entry is left
NoConnection(socks, nxt, out) == socks = {} /\ DOMAIN nxt = {} /\ DOMAIN out = {}

\* C1: every reset, from the timer callback or from a violation in OnRead,
\* ends with no live connection (none tracked, none allocated, the violator
\* included), score 0 and the reset-timer handle cleared.
C1_ResetPostState ==
  [][ResetStep =>
       /\ last'.op \in {"Reset", "OnRead"}
       /\ NoConnection(sockets', next_', output')
       /\ score' = 0
       /\ reset_timer' = NULL]_vars

\* a violation by one of two live connections has just reset the epoch
C1_Witness ==
  /\ last.op = "OnRead" /\ last.live = 2
  /\ resets = 1 /\ sockets = {} /\ score = 0 /\ ~Armed

\* C2: stdout holds exactly one line per reset and nothing else, and the line
\* of a reset carries the score the reset zeroes and the max_score of that
\* moment.
C2_OneLinePerReset ==
  /\ [](Len(stdout) = resets)
  /\ [][IF ResetStep
          THEN resets' = resets + 1 /\ stdout' = Append(stdout, ResultLine)
          ELSE stdout' = stdout]_vars

\* a second reset has printed a score below the maximum
C2_Witness ==
  /\ Len(stdout) = 2
  /\ stdout[1] = [score |-> 2, max_score |-> 2]
  /\ stdout[2] = [score |-> 1, max_score |-> 2]

\* C3: bytes read strictly before the reader's deadline reset the epoch: every
\* live connection is destroyed, whatever its own deadline, and the read does
\* not score.
C3_ViolationResetsAll ==
  [][\A s \in SocketIds :
       (ReadStep(s) /\ Micros(now) < Micros(next_[s])) =>
          /\ NoConnection(sockets', next_', output')
          /\ resets' = resets + 1
          /\ stdout' = Append(stdout, ResultLine)
          /\ score' = 0
          /\ max_score' = max_score]_vars

\* a violation has closed two connections after a tick was scored
C3_Witness ==
  /\ last.op = "OnRead" /\ last.live = 2 /\ sockets = {}
  /\ stdout # << >> /\ stdout[Len(stdout)].score > 0

\* C4: a non-empty read at or after the reader's deadline adds exactly 1 to
\* score and redraws that deadline only (now + sec + usec, sec below
\* max_seconds, usec below 1000000); the live set, the timer and the other
\* deadlines stay as they are and no reset happens.
C4_TickFrame ==
  [][\A s \in SocketIds :
       (ReadStep(s) /\ Micros(now) >= Micros(next_[s])) =>
          /\ score' = score + 1
          /\ sockets' = sockets
          /\ DOMAIN next_' = DOMAIN next_
          /\ \A t \in sockets \ {s} : next_'[t] = next_[t]
          /\ next_'[s].tv_usec \in 0..MAX_USEC
          /\ Micros(next_'[s]) - Micros(now) \in 0..(max_seconds * USEC_PER_SEC - 1)
          /\ reset_timer' = reset_timer
          /\ resets' = resets
          /\ stdout' = stdout]_vars

\* one of two live connections has ticked
C4_Witness ==
  /\ last.op = "OnRead" /\ last.live = 2 /\ Cardinality(sockets) = 2
  /\ score > 0

\* C5: only an accept that finds the handle unset arms the timer; the handle
\* and its due time then stay as they are until the reset, so the due time is
\* the time of the epoch's first accept plus max_before_reset.
C5_ArmedByFirstAccept ==
  /\ [](Armed =>
          /\ first_accept # NULL
          /\ Micros(reset_timer.due)
               = Micros(first_accept) + max_before_reset * USEC_PER_SEC)
  /\ [][(reset_timer' # reset_timer /\ reset_timer' # NULL) =>
          /\ last'.op = "OnAccept"
          /\ reset_timer = NULL
          /\ epoch_accepts = 0
          /\ Micros(reset_timer'.due)
               = Micros(now) + max_before_reset * USEC_PER_SEC]_vars

\* a second connection was accepted later in the epoch
C5_Witness ==
  /\ last.op = "OnAccept" /\ epoch_accepts = 2 /\ Armed
  /\ Micros(now) > Micros(first_accept)

\* C6: the timer is armed exactly when a connection was accepted since the
\* most recent reset (or since the start); it is disarmed only by a reset and
\* armed only by an accept.
C6_ArmedIffAccepted ==
  /\ [](Armed <=> epoch_accepts > 0)
  /\ [][/\ (Armed /\ reset_timer' = NULL) => ResetStep
        /\ (~Armed /\ reset_timer' # NULL) => last'.op = "OnAccept"]_vars

\* in a later epoch the timer is armed although every connection has closed
C6_Witness ==
  /\ Armed /\ sockets = {} /\ resets > 0 /\ epoch_accepts > 0
  /\ last.op = "OnEvent"

\* C7: with the clock running and due timers delivered, an armed timer is
\* always followed by a reset, which leaves no connection and has printed its
\* line, whatever ticks, accepts and closes happen in between.
C7_ArmedLeadsToReset ==
  Armed ~> (/\ last.op \in {"Reset", "OnRead"}
            /\ ~Armed
            /\ sockets = {}
            /\ resets > 0
            /\ Len(stdout) = resets)

\* the timer has fired after every connection of the epoch had closed
C7_Witness ==
  /\ last.op = "Reset" /\ last.live = 0
  /\ stdout # << >> /\ stdout[Len(stdout)].score > 0

\* C8: EOF or an I/O error on a connection destroys that connection (set
\* entry, Socket, bufferevent) and changes nothing else: score, max_score,
\* the timer, stdout and every other connection are as before.
C8_CloseIsLocal ==
  [][\A s \in SocketIds :
       CloseStep(s) =>
          /\ sockets' = sockets \ {s}
          /\ DOMAIN next_' = sockets \ {s}
          /\ DOMAIN output' = sockets \ {s}
          /\ \A t \in sockets \ {s} :
                next_'[t] = next_[t] /\ output'[t] = output[t]
          /\ score' = score
          /\ max_score' = max_score
          /\ reset_timer' = reset_timer
          /\ resets' = resets
          /\ stdout' = stdout]_vars

\* one of two live connections was closed by its peer after a tick
C8_Witness ==
  /\ last.op = "OnEvent" /\ last.live = 2 /\ Cardinality(sockets) = 1
  /\ score > 0

MaxBeforeEpoch == IF stdout = << >> THEN 0 ELSE stdout[Len(stdout)].max_score

\* C10: max_score never decreases, score never exceeds it, a reset leaves it
\* as it is, and after a reset it is the larger of its value before the epoch
\* and the score at the reset.
C10_MaxScore ==
  /\ [](score <= max_score)
  /\ [][/\ max_score' >= max_score
        /\ ResetStep => /\ max_score' = max_score
                        /\ max_score' = Max(MaxBeforeEpoch, score)]_vars

\* a reset of an epoch that stayed below the maximum
C10_Witness ==
  /\ resets = 2 /\ score = 0
  /\ stdout[2].score < stdout[1].score
  /\ max_score = stdout[1].score

\* C11 as claimed: with max_seconds = 1 and a drawn delay of 0 s 0 us, bytes
\* evaluated at the construction instant (now equal to the deadline) are a
\* violation: no tick, a reset, and the line "0 / 0".
ZeroDelayRead(s) ==
  /\ ReadStep(s)
  /\ max_seconds = 1
  /\ score = 0 /\ max_score = 0
  /\ Len(output[s]) = 1
  /\ output[s][1].sec = 0 /\ output[s][1].usec6 = Digits6(0)
  /\ next_[s] = now

C11_ZeroDelayIsViolation ==
  [][\A s \in SocketIds :
       ZeroDelayRead(s) =>
          /\ resets' = resets + 1
          /\ score' = 0
          /\ stdout' = Append(stdout, [score |-> 0, max_score |-> 0])]_vars

\* C11 as amended: that read is a tick, since now = deadline is ready: score
\* and max_score become 1, nothing is closed and nothing is printed.
C11_ZeroDelayIsTick ==
  [][\A s \in SocketIds :
       ZeroDelayRead(s) =>
          /\ score' = 1 /\ max_score' = 1
          /\ sockets' = sockets
          /\ resets' = resets
          /\ stdout' = stdout
          /\ Len(output'[s]) = 2]_vars

\* the first read of a connection accepted at 0.000000 with delay 0.000000
C11_Witness ==
  /\ last.op = "OnRead" /\ max_seconds = 1 /\ now = TV(0, 0)
  /\ naccepts = 1 /\ resets = 0 /\ score = 1
  /\ output[last.sock][1].usec6 = Digits6(0)

\* C12: score is shared: it equals the number of reads at or after the
\* reader's own deadline made by all connections since the last reset, closed
\* connections included, and that is the score the next reset prints before
\* it zeroes it.
C12_ScoreIsShared ==
  /\ [](score = epoch_ticks)
  /\ [][ResetStep =>
          /\ stdout'[Len(stdout')].score = epoch_ticks
          /\ score' = 0]_vars

\* two connections have ticked once each
C12_Witness ==
  /\ Cardinality(sockets) = 2
  /\ \A s \in sockets : Len(output[s]) = 2
  /\ score = 2 /\ max_score = 2 /\ epoch_ticks = 2

\* the value of six decimal digits
Val6(d) == d[1] * 100000 + d[2] * 10000 + d[3] * 1000 + d[4] * 100 + d[5] * 10 + d[6]

\* line is the status line of the deadline that s holds after the step
LineOfDeadline(line, s) ==
  Micros(next_'[s]) = Micros(now) + line.sec * USEC_PER_SEC + Val6(line.usec6)

AcceptStep(s) == last'.op = "OnAccept" /\ last'.sock = s

\* C13: a connection gets one status line when it is accepted, carrying the
\* score and max_score of that moment, one after each of its ticks, carrying
\* the values that include that tick, and none in any other step; the line
\* states the delay of the deadline just armed.
C13_StatusLines ==
  [][\A s \in SocketIds :
       IF AcceptStep(s)
         THEN /\ Len(output'[s]) = 1
              /\ output'[s][1].score = score
              /\ output'[s][1].max_score = max_score
              /\ LineOfDeadline(output'[s][1], s)
       ELSE IF ReadStep(s) /\ Micros(now) >= Micros(next_[s])
         THEN /\ Len(output'[s]) = Len(output[s]) + 1
              /\ SubSeq(output'[s], 1, Len(output[s])) = output[s]
              /\ output'[s][Len(output'[s])].score = score + 1
              /\ output'[s][Len(output'[s])].max_score = Max(max_score, score + 1)
              /\ LineOfDeadline(output'[s][Len(output'[s])], s)
       ELSE s \in DOMAIN output' =>
              s \in DOMAIN output /\ output'[s] = output[s]]_vars

\* a connection has ticked twice
C13_Witness ==
  /\ last.op = "OnRead" /\ last.sock \in sockets
  /\ Len(output[last.sock]) = 3
  /\ output[last.sock][1].score = 0
  /\ output[last.sock][3].score = 2

\* C17: every run of the reset coordinator finds the handle set to a timer
\* event that is allocated, frees it and clears the handle: event_free never
\* gets a null or an already freed handle, and no timer event outlives its
\* epoch.
C17_TimerFreedOnce ==
  /\ [](~ub)
  /\ [](timers = IF Armed THEN {reset_timer} ELSE {})
  /\ [][ResetStep => Armed /\ reset_timer \in timers /\ timers' = {}]_vars

\* the timer of a second epoch has been freed by a violation
C17_Witness ==
  /\ last.op = "OnRead" /\ resets = 2 /\ timers = {} /\ ~Armed /\ ~ub

\* C18: while the timer is unarmed there is no live connection and score is 0.
C18_IdleIsEmpty ==
  [](~Armed => NoConnection(sockets, next_, output) /\ score = 0)

\* idle again after an epoch in which a tick was scored
C18_Witness ==
  /\ ~Armed /\ sockets = {} /\ score = 0 /\ max_score > 0 /\ last.op = "Reset"

\* C19: the only timer pending is the one armed in the current epoch, so a
\* timer never resets a later epoch, and every live connection was accepted
\* after the most recent reset.
C19_NoStaleTimer ==
  /\ [](\A t \in timers : t.armed_in = resets /\ t = reset_timer)
  /\ [](\A s \in sockets : born[s] = resets)
  /\ [][last'.op = "Reset" =>
          last'.arg = reset_timer /\ last'.arg.armed_in = resets]_vars

\* the timer armed after a violation has fired
C19_Witness ==
  /\ last.op = "Reset" /\ resets = 2
  /\ last.arg.armed_in = 1
  /\ Micros(last.arg.due) < 2 * max_before_reset * USEC_PER_SEC

\* C14: IsReady returns true exactly when the clock is at or after the
\* deadline, both taken as total microseconds; a clock equal to the deadline
\* is ready.
C14_IsReadyIsMicros ==
  frame.done =>
    /\ frame.result <=> (Micros(frame.tv) >= Micros(frame.next))
    /\ frame.tv = frame.next => frame.result

\* IsReady has returned true for a clock equal to a deadline whose second is
\* not 0 and whose microsecond field is the largest
C14_Witness ==
  /\ frame.done /\ frame.result
  /\ frame.tv = frame.next /\ frame.tv.tv_usec = MAX_USEC /\ frame.tv.tv_sec > 0

\* C15: after UpdateTimeout the deadline's microsecond field is in
\* 0..999999, its total in microseconds is the clock plus sec seconds plus
\* usec microseconds, and the loop carried at most once.
C15_DeadlineNormalised ==
  frame.done =>
    /\ frame.next_.tv_usec \in 0..MAX_USEC
    /\ Micros(frame.next_) =
         Micros(frame.tv) + frame.sec * USEC_PER_SEC + frame.usec
    /\ frame.next_.tv_sec - (frame.tv.tv_sec + frame.sec) \in {0, 1}

\* the microsecond sum was exactly 1000000: one carry, microsecond field 0
C15_Witness ==
  /\ frame.done
  /\ frame.tv.tv_usec + frame.usec = USEC_PER_SEC
  /\ frame.next_ = TV(frame.tv.tv_sec + frame.sec + 1, 0)
  /\ frame.sec = 1

\* C16: the loop of CloseAllSockets ends for every live set.  Each iteration
\* destroys one Socket and takes exactly that Socket out of the set, without
\* a result line, a change of the timer or a new call of CloseAllSockets; the
\* result line is printed and the timer disarmed only on the empty set.
C16_TeardownTerminates ==
  /\ [][(InCloseAll("while") /\ sockets # {}) =>
          /\ \E s \in sockets :
                /\ sockets' = sockets \ {s}
                /\ DOMAIN next_' = DOMAIN next_ \ {s}
                /\ DOMAIN output' = DOMAIN output \ {s}
          /\ Cardinality(sockets') = Cardinality(sockets) - 1
          /\ stdout' = stdout
          /\ resets' = resets
          /\ reset_timer' = reset_timer /\ timers' = timers
          /\ frame' = frame]_vars
  /\ [][(InCloseAll("while") \/ InCloseAll("event_free")) =>
          ((stdout' # stdout \/ (Armed /\ ~Armed')) => sockets = {})]_vars
  /\ [](frame # NULL => <>(frame = NULL))

\* a call that found two live Sockets has returned: both are gone, one line
\* was printed and the timer is disarmed
C16_Witness ==
  /\ frame = NULL
  /\ last.op = "Reset" /\ last.live = 2
  /\ sockets = {} /\ Len(stdout) = resets /\ resets > 0 /\ ~Armed

\* C20: in the DEBUG build the index at which OnRead writes the terminating
\* '\0' is an index of the 8192-byte buffer: 0 <= bytes_read < 8192.
C20_NulIndexInBuffer ==
  nul_index # -1 => nul_index \in 0..(BUF_SIZE - 1)

====
